---- MODULE Spec2Model ----
(***************************************************************************)
(* The map widget MapComponent of src/src/map.js (latest revision) and of  *)
(* its earlier revisions under src/unnamed, as a state machine.            *)
(*                                                                         *)
(* One action is one event of the UI event loop: a DOM event handler       *)
(* together with the renders and effects React runs for the state it set,  *)
(* or the resumption of an async function when its HTTP response arrives.  *)
(* A function created during a render closes over the state of that        *)
(* render; the values a closure captured are stored with the object that   *)
(* holds it (a Draw interaction's drawend handler, a pending request).     *)
(*                                                                         *)
(* Coordinates are not modelled: a polygon is one of Polygons, and the     *)
(* projections (transform, fromLonLat) keep the polygon's identity.  A     *)
(* vector source is the set of styled geometries it holds.  Only the map   *)
(* on screen is kept: a Map object the base-layer effect has replaced is   *)
(* reachable only from the continuation of a request issued before, which  *)
(* adds features to it that nothing reads.                                 *)
(***************************************************************************)
EXTENDS Integers, Sequences, FiniteSets, TLC

\* ------------------------------------------------------------------ bounds
MaxMaps   == 3   \* map surfaces built (initial one + base-layer toggles)
MaxDraws  == 2   \* Draw interactions created by addDrawInteraction
MaxAvail  == 2   \* availability requests issued
MaxFetch  == 2   \* index requests issued
MaxToasts == 1   \* error toasts shown

\* ------------------------------------------------------- values and inputs
NoMap  == 0      \* useState(null) for map
NoDraw == 0      \* useState(null) for draw
NoAoi  == 0      \* useState(null) for drawnGeoJSON
NoDate == ""     \* selectedDate unset: null (map.js) or '' (part_003), both falsy

Polygons    == {1, 2}                  \* rings the user can draw
Indices     == {"NDVI", "NDWI"}        \* radio buttons used (LST is alike)
CloudInputs == {10}                    \* values typed into the threshold input
InitialCloudCover == 100

IsoDates == <<"2024-06-01", "2024-06-10">>

\* Sequence helpers
Range(s) == {s[i] : i \in DOMAIN s}

\* s without its k-th element
Without(s, k) == SubSeq(s, 1, k - 1) \o SubSeq(s, k + 1, Len(s))

\* [...new Set(xs)]: the distinct elements in first-encountered order
RECURSIVE Distinct(_)
Distinct(xs) ==
    IF xs = <<>> THEN <<>>
    ELSE LET front == Distinct(SubSeq(xs, 1, Len(xs) - 1))
             last  == xs[Len(xs)]
         IN  IF last \in Range(front) THEN front ELSE Append(front, last)

\* date-fns parseISO on a calendar date: the Date at local midnight, modelled
\* as the day number since 1970-01-01
parseISO(s) ==
    CASE s = "2024-06-01" -> 19875
      [] s = "2024-06-10" -> 19884
      [] OTHER            -> -1     \* Invalid Date

\* dates.map(date => parseISO(date))
ParsedDates(dates) == [i \in DOMAIN dates |-> parseISO(dates[i])]

\* date-fns format(date, 'yyyy-MM-dd')
format(d) ==
    CASE d = 19875 -> "2024-06-01"
      [] d = 19884 -> "2024-06-10"
      [] OTHER     -> "Invalid"

\* ------------------------------------------------------ the remote service
\* Cloud cover of the scene of each date over each polygon
SceneCloud(p, iso) ==
    CASE iso = "2024-06-01" -> IF p = 1 THEN 5 ELSE 60
      [] OTHER              -> IF p = 1 THEN 40 ELSE 5

\* The availability endpoint: the dates whose scene is clear enough
AvailabilityResponse(p, cc) ==
    SelectSeq(IsoDates, LAMBDA iso : SceneCloud(p, iso) <= cc)

\* Ways a request fails before its payload is used
HttpFailures == {"network", "status"}

\* `features` payloads of the index endpoint; geometry "none" is a feature
\* without a geometry member
FeatureLists ==
    { << [type |-> "Polygon", class_no |-> 2],
         [type |-> "MultiPolygon", class_no |-> 0] >>,
      << [type |-> "Polygon", class_no |-> 5] >>,
      << [type |-> "Polygon", class_no |-> 1],
         [type |-> "none", class_no |-> 3] >> }

\* ------------------------------------------------------------------- state
VARIABLES
    map,               \* useState map: id of the current Map object
    draw,              \* useState draw: id of the Draw interaction held
    geoJSONFeatures,   \* useState geoJSONFeatures
    drawnGeoJSON,      \* useState drawnGeoJSON
    selectedIndex,
    selectedDate,
    availableDates,
    cloudCover,
    fetchDataRequired,
    loading,
    loadingDates,
    baseLayer,
    legendColors,
    overlay,           \* the features of the current map's vector source
    interactions,      \* Draw interactions attached to the current map
    drawsMade,         \* Draw interactions created so far
    availReqs,         \* availability requests in flight, in issue order
    availIssued,       \* availability requests issued so far
    fetchReqs,         \* index requests in flight, in issue order
    fetchIssued,       \* index requests issued so far
    toasts,            \* toast.error calls, by message
    lastAvail          \* history: the availability request triggered last

vars == << map, draw, geoJSONFeatures, drawnGeoJSON, selectedIndex,
           selectedDate, availableDates, cloudCover, fetchDataRequired,
           loading, loadingDates, baseLayer, legendColors, overlay,
           interactions, drawsMade, availReqs, availIssued, fetchReqs,
           fetchIssued, toasts, lastAvail >>

EmptyLegend == [c \in {} |-> ""]

NoToasts == [validation |-> 0, geojson |-> 0, dates |-> 0]

ToastCount == toasts.validation + toasts.geojson + toasts.dates

\* toast.error(message)
Toast(kind) == [toasts EXCEPT ![kind] = @ + 1]

\* State after the component has mounted: the useState initial values and
\* the first run of the base-layer effect, which builds the first map
Init ==
    /\ map = 1
    /\ draw = NoDraw
    /\ geoJSONFeatures = <<>>
    /\ drawnGeoJSON = NoAoi
    /\ selectedIndex = "NDVI"
    /\ selectedDate = NoDate
    /\ availableDates = <<>>
    /\ cloudCover = InitialCloudCover
    /\ fetchDataRequired = FALSE
    /\ loading = FALSE
    /\ loadingDates = FALSE
    /\ baseLayer = "google"
    /\ legendColors = EmptyLegend
    /\ overlay = {}
    /\ interactions = {}
    /\ drawsMade = 0
    /\ availReqs = <<>>
    /\ availIssued = 0
    /\ fetchReqs = <<>>
    /\ fetchIssued = 0
    /\ toasts = NoToasts
    /\ lastAvail = [aoi |-> NoAoi, cc |-> 0, st |-> "none"]

\* ---------------------------------------------------------- Draw Session
\* removeDrawInteraction, run in a render whose draw is d, on a map whose
\* attached interactions are ints: the interactions left attached (removing
\* one that is not attached does nothing) ...
InteractionsAfterRemove(ints, d) ==
    IF map # NoMap /\ d # NoDraw THEN {i \in ints : i.id # d} ELSE ints

\* ... and the draw handle it leaves
DrawAfterRemove(d) == IF map # NoMap /\ d # NoDraw THEN NoDraw ELSE d

\* fetchAvailableDates(geojson, cloudCover) up to its await: the loading flag
\* is set and the request is posted
FetchAvailableDates(geojson, cc) ==
    /\ availIssued < MaxAvail
    /\ loadingDates' = TRUE
    /\ availIssued' = availIssued + 1
    /\ availReqs' = Append(availReqs, [aoi |-> geojson, cc |-> cc])
    /\ lastAvail' = [aoi |-> geojson, cc |-> cc, st |-> "pending"]

\* fetchGeoJSONData() up to its await, run by the effect on
\* [fetchDataRequired, map] in a render whose map is m (with the
\* interactions ints attached) and whose drawnGeoJSON is aoi.  With an
\* input missing it returns at once and its finally block resets both
\* flags; otherwise it detaches the draw interaction and posts the request,
\* and m stays with the continuation.
FetchGeoJSONData(m, ints, aoi) ==
    IF selectedIndex = "" \/ selectedDate = NoDate \/ aoi = NoAoi
    THEN /\ loading' = FALSE
         /\ fetchDataRequired' = FALSE
         /\ interactions' = ints
         /\ UNCHANGED << draw, fetchReqs, fetchIssued >>
    ELSE /\ fetchIssued < MaxFetch
         /\ loading' = TRUE
         /\ fetchDataRequired' = TRUE
         /\ interactions' = InteractionsAfterRemove(ints, draw)
         /\ draw' = DrawAfterRemove(draw)
         /\ fetchIssued' = fetchIssued + 1
         /\ fetchReqs' = Append(fetchReqs,
              [map |-> m, index |-> selectedIndex, date |-> selectedDate,
               aoi |-> aoi])

\* Click on "Draw AOI Polygon": a new Draw interaction on the current map's
\* vector source; its drawend handler closes over this render's cloudCover
AddDrawInteraction ==
    /\ map # NoMap
    /\ drawsMade < MaxDraws
    /\ drawsMade' = drawsMade + 1
    /\ interactions' = interactions \cup
           {[id |-> drawsMade + 1, cc |-> cloudCover]}
    /\ draw' = drawsMade + 1
    /\ UNCHANGED << map, geoJSONFeatures, drawnGeoJSON, selectedIndex,
                    selectedDate, availableDates, cloudCover,
                    fetchDataRequired, loading, loadingDates, baseLayer,
                    legendColors, overlay, availReqs, availIssued, fetchReqs,
                    fetchIssued, toasts, lastAvail >>

\* The feature a Draw interaction adds to its source when a ring is finished
DrawnFeature(p) == [kind |-> "drawn", ring |-> p]

\* The user finishes polygon p with interaction i of the map on screen: the
\* shape joins the vector source and the drawend handler of map.js runs
DrawEnd(i, p) ==
    /\ i \in interactions
    /\ overlay' = overlay \cup {DrawnFeature(p)}
    /\ drawnGeoJSON' = p
    /\ FetchAvailableDates(p, i.cc)
    /\ UNCHANGED << map, draw, geoJSONFeatures, selectedIndex, selectedDate,
                    availableDates, cloudCover, fetchDataRequired, loading,
                    baseLayer, legendColors, interactions, drawsMade,
                    fetchReqs, fetchIssued, toasts >>

\* Click on "Stop Drawing"
RemoveDrawInteraction ==
    /\ interactions' = InteractionsAfterRemove(interactions, draw)
    /\ draw' = DrawAfterRemove(draw)
    /\ UNCHANGED << map, geoJSONFeatures, drawnGeoJSON, selectedIndex,
                    selectedDate, availableDates, cloudCover,
                    fetchDataRequired, loading, loadingDates, baseLayer,
                    legendColors, overlay, drawsMade, availReqs, availIssued,
                    fetchReqs, fetchIssued, toasts, lastAvail >>

\* Variant of ClearDrawnFeatures: the stored batch and the legend are kept
ClearDrawnFeatures_KeepingBatch ==
    /\ map # NoMap
    /\ overlay' = {}
    /\ drawnGeoJSON' = NoAoi
    /\ availableDates' = <<>>
    /\ fetchDataRequired' = FALSE
    /\ lastAvail' = [aoi |-> NoAoi, cc |-> 0, st |-> "none"]
    /\ UNCHANGED << map, draw, geoJSONFeatures, legendColors, selectedIndex,
                    selectedDate, cloudCover, loading, loadingDates,
                    baseLayer, interactions, drawsMade, availReqs,
                    availIssued, fetchReqs, fetchIssued, toasts >>

\* Click on "Clear Feature"
ClearDrawnFeatures ==
    /\ map # NoMap
    /\ overlay' = {}
    /\ drawnGeoJSON' = NoAoi
    /\ availableDates' = <<>>
    /\ fetchDataRequired' = FALSE
    /\ geoJSONFeatures' = <<>>
    /\ legendColors' = EmptyLegend
    /\ lastAvail' = [aoi |-> NoAoi, cc |-> 0, st |-> "none"]
    /\ UNCHANGED << map, draw, selectedIndex, selectedDate, cloudCover,
                    loading, loadingDates, baseLayer, interactions, drawsMade,
                    availReqs, availIssued, fetchReqs, fetchIssued, toasts >>

\* ------------------------------------------------------ Availability Query
\* Variant of AvailableDatesArrive: the new dates are appended to the old
AvailableDatesArrive_Merging(k) ==
    /\ k \in DOMAIN availReqs
    /\ availReqs' = Without(availReqs, k)
    /\ availableDates' = availableDates \o ParsedDates(
            AvailabilityResponse(availReqs[k].aoi, availReqs[k].cc))
    /\ loadingDates' = FALSE
    /\ lastAvail' = IF k = Len(availReqs) /\ lastAvail.st = "pending"
                    THEN [lastAvail EXCEPT !.st = "ok"] ELSE lastAvail
    /\ UNCHANGED << map, draw, geoJSONFeatures, drawnGeoJSON, selectedIndex,
                    selectedDate, cloudCover, fetchDataRequired, loading,
                    baseLayer, legendColors, overlay, interactions, drawsMade,
                    availIssued, fetchReqs, fetchIssued, toasts >>

\* The response of the k-th pending availability request arrives with a list
\* of dates: the list replaces availableDates, the finally block clears the
\* flag
AvailableDatesArrive(k) ==
    /\ k \in DOMAIN availReqs
    /\ availReqs' = Without(availReqs, k)
    /\ availableDates' = ParsedDates(
            AvailabilityResponse(availReqs[k].aoi, availReqs[k].cc))
    /\ loadingDates' = FALSE
    /\ lastAvail' = IF k = Len(availReqs) /\ lastAvail.st = "pending"
                    THEN [lastAvail EXCEPT !.st = "ok"] ELSE lastAvail
    /\ UNCHANGED << map, draw, geoJSONFeatures, drawnGeoJSON, selectedIndex,
                    selectedDate, cloudCover, fetchDataRequired, loading,
                    baseLayer, legendColors, overlay, interactions, drawsMade,
                    availIssued, fetchReqs, fetchIssued, toasts >>

\* Variant of AvailableDatesFail: the catch block also empties the dates
AvailableDatesFail_Emptying(k, how) ==
    /\ k \in DOMAIN availReqs
    /\ how \in HttpFailures \cup {"notlist"}
    /\ ToastCount < MaxToasts
    /\ availReqs' = Without(availReqs, k)
    /\ toasts' = Toast("dates")
    /\ availableDates' = <<>>
    /\ loadingDates' = FALSE
    /\ lastAvail' = IF k = Len(availReqs) /\ lastAvail.st = "pending"
                    THEN [lastAvail EXCEPT !.st = "failed"] ELSE lastAvail
    /\ UNCHANGED << map, draw, geoJSONFeatures, drawnGeoJSON, selectedIndex,
                    selectedDate, cloudCover, fetchDataRequired, loading,
                    baseLayer, legendColors, overlay, interactions, drawsMade,
                    availIssued, fetchReqs, fetchIssued >>

\* The k-th pending availability request fails: axios rejects (network
\* error, error status) or response.data has no map method ("notlist"); the
\* catch block shows a toast, the finally block clears the flag
AvailableDatesFail(k, how) ==
    /\ k \in DOMAIN availReqs
    /\ how \in HttpFailures \cup {"notlist"}
    /\ ToastCount < MaxToasts
    /\ availReqs' = Without(availReqs, k)
    /\ toasts' = Toast("dates")
    /\ loadingDates' = FALSE
    /\ lastAvail' = IF k = Len(availReqs) /\ lastAvail.st = "pending"
                    THEN [lastAvail EXCEPT !.st = "failed"] ELSE lastAvail
    /\ UNCHANGED << map, draw, geoJSONFeatures, drawnGeoJSON, selectedIndex,
                    selectedDate, availableDates, cloudCover,
                    fetchDataRequired, loading, baseLayer, legendColors,
                    overlay, interactions, drawsMade, availIssued, fetchReqs,
                    fetchIssued >>

\* Variant of HandleCloudCoverChange: the refresh is called with the
\* threshold of the render before the change
HandleCloudCoverChange_Stale(v) ==
    /\ v # cloudCover
    /\ cloudCover' = v
    /\ IF drawnGeoJSON # NoAoi
       THEN FetchAvailableDates(drawnGeoJSON, cloudCover)
       ELSE UNCHANGED << loadingDates, availReqs, availIssued, lastAvail >>
    /\ UNCHANGED << map, draw, geoJSONFeatures, drawnGeoJSON, selectedIndex,
                    selectedDate, availableDates, fetchDataRequired, loading,
                    baseLayer, legendColors, overlay, interactions, drawsMade,
                    fetchReqs, fetchIssued, toasts >>

\* The threshold input changes to v: setCloudCover, and the effect on
\* [cloudCover] of the next render refreshes the dates of the drawn polygon
HandleCloudCoverChange(v) ==
    /\ v # cloudCover
    /\ cloudCover' = v
    /\ IF drawnGeoJSON # NoAoi
       THEN FetchAvailableDates(drawnGeoJSON, v)
       ELSE UNCHANGED << loadingDates, availReqs, availIssued, lastAvail >>
    /\ UNCHANGED << map, draw, geoJSONFeatures, drawnGeoJSON, selectedIndex,
                    selectedDate, availableDates, fetchDataRequired, loading,
                    baseLayer, legendColors, overlay, interactions, drawsMade,
                    fetchReqs, fetchIssued, toasts >>

\* The DatePicker offers includeDates={availableDates} only
HandleDateChange(date) ==
    /\ date \in Range(availableDates)
    /\ selectedDate' = format(date)
    /\ selectedDate' # selectedDate
    /\ UNCHANGED << map, draw, geoJSONFeatures, drawnGeoJSON, selectedIndex,
                    availableDates, cloudCover, fetchDataRequired, loading,
                    loadingDates, baseLayer, legendColors, overlay,
                    interactions, drawsMade, availReqs, availIssued,
                    fetchReqs, fetchIssued, toasts, lastAvail >>

HandleIndexChange(ix) ==
    /\ ix \in Indices \ {selectedIndex}
    /\ selectedIndex' = ix
    /\ UNCHANGED << map, draw, geoJSONFeatures, drawnGeoJSON, selectedDate,
                    availableDates, cloudCover, fetchDataRequired, loading,
                    loadingDates, baseLayer, legendColors, overlay,
                    interactions, drawsMade, availReqs, availIssued,
                    fetchReqs, fetchIssued, toasts, lastAvail >>

\* ----------------------------------------------------- Result Fetch & Render
colors ==
    << "#00ff00", "#00e600", "#00cc00", "#00b300",
       "#009900", "#007a00", "#006600", "#004d00" >>

\* Variant of generateColorMapping: only the first half of the palette is
\* used
generateColorMapping_HalfPalette(classes) ==
    [c \in Range(classes) |->
        colors[(((CHOOSE i \in DOMAIN classes : classes[i] = c) - 1) % 4) + 1]]

\* Variant of generateColorMapping: the palette is indexed by the class code
generateColorMapping_ByCode(classes) ==
    [c \in Range(classes) |-> colors[(c % Len(colors)) + 1]]

\* Variant of generateColorMapping: the palette is indexed from the second
\* colour
generateColorMapping_Shifted(classes) ==
    [c \in Range(classes) |->
        colors[((CHOOSE i \in DOMAIN classes : classes[i] = c) % Len(colors)) + 1]]

\* generateColorMapping(classes): the i-th class (from 0) gets
\* colors[i % colors.length]
generateColorMapping(classes) ==
    [c \in Range(classes) |->
        colors[(((CHOOSE i \in DOMAIN classes : classes[i] = c) - 1) % Len(colors)) + 1]]

\* The class codes of a payload, [...new Set(features.map(f => class_no))]
ClassesOf(features) ==
    Distinct([i \in DOMAIN features |-> features[i].class_no])

\* What the callback of features.map returns for a geometry type that is
\* neither Polygon nor MultiPolygon
Undefined == [kind |-> "undefined"]

\* Variant of OlFeatures: a geometry of any type is converted
OlFeatures_ConvertingAll(features, colorMapping) ==
    [i \in DOMAIN features |->
        [kind |-> "result", of |-> features, idx |-> i,
         geom |-> features[i].type, class_no |-> features[i].class_no,
         fill |-> colorMapping[features[i].class_no]]]

\* features.map(feature => olFeature): the i-th geometry of the payload,
\* filled with the colour the mapping has for its class
OlFeatures(features, colorMapping) ==
    [i \in DOMAIN features |->
        IF features[i].type \in {"Polygon", "MultiPolygon"}
        THEN [kind |-> "result", of |-> features, idx |-> i,
              geom |-> features[i].type, class_no |-> features[i].class_no,
              fill |-> colorMapping[features[i].class_no]]
        ELSE Undefined]

\* Reading feature.geometry.type of a feature without geometry throws
Convertible(features) == \A i \in DOMAIN features : features[i].type # "none"

\* Variant of HandleFetchData: with the inputs present fetchGeoJSONData is
\* called whether or not the flag was already set
HandleFetchData_Refetching ==
    /\ IF selectedIndex # "" /\ selectedDate # NoDate /\ drawnGeoJSON # NoAoi
       THEN /\ FetchGeoJSONData(map, interactions, drawnGeoJSON)
            /\ UNCHANGED toasts
       ELSE /\ ToastCount < MaxToasts
            /\ toasts' = Toast("validation")
            /\ UNCHANGED << fetchDataRequired, loading, interactions, draw,
                            fetchReqs, fetchIssued >>
    /\ UNCHANGED << map, geoJSONFeatures, drawnGeoJSON, selectedIndex,
                    selectedDate, availableDates, cloudCover, loadingDates,
                    baseLayer, legendColors, overlay, drawsMade, availReqs,
                    availIssued, lastAvail >>

\* Click on "Fetch Data": with the inputs present the flag is set and the
\* effect of the next render calls fetchGeoJSONData; setting a flag that is
\* already set renders nothing and runs no effect
HandleFetchData ==
    /\ IF selectedIndex # "" /\ selectedDate # NoDate /\ drawnGeoJSON # NoAoi
       THEN /\ IF fetchDataRequired
               THEN UNCHANGED << fetchDataRequired, loading, interactions,
                                 draw, fetchReqs, fetchIssued >>
               ELSE FetchGeoJSONData(map, interactions, drawnGeoJSON)
            /\ UNCHANGED toasts
       ELSE /\ ToastCount < MaxToasts
            /\ toasts' = Toast("validation")
            /\ UNCHANGED << fetchDataRequired, loading, interactions, draw,
                            fetchReqs, fetchIssued >>
    /\ UNCHANGED << map, geoJSONFeatures, drawnGeoJSON, selectedIndex,
                    selectedDate, availableDates, cloudCover, loadingDates,
                    baseLayer, legendColors, overlay, drawsMade, availReqs,
                    availIssued, lastAvail >>

\* The response of the k-th pending index request arrives with a `features`
\* list: legend, stored batch and the vector source of the map the call
\* closed over are updated; a feature that cannot be converted throws after
\* the legend was set, and addFeatures throws on an undefined entry (before
\* the source shows any feature of the batch) after the batch was stored.
\* The finally block resets both flags.
GeoJSONArrives(k, features) ==
    /\ k \in DOMAIN fetchReqs
    /\ fetchReqs' = Without(fetchReqs, k)
    /\ LET colorMapping == generateColorMapping(ClassesOf(features))
           olFeatures   == OlFeatures(features, colorMapping)
       IN  /\ legendColors' = colorMapping
           /\ IF Convertible(features)
              THEN /\ geoJSONFeatures' = olFeatures
                   /\ IF Undefined \in Range(olFeatures)
                      THEN /\ ToastCount < MaxToasts
                           /\ toasts' = Toast("geojson")
                           /\ UNCHANGED overlay
                      ELSE /\ overlay' = IF fetchReqs[k].map = map
                                         THEN overlay \cup Range(olFeatures)
                                         ELSE overlay
                           /\ UNCHANGED toasts
              ELSE /\ ToastCount < MaxToasts
                   /\ toasts' = Toast("geojson")
                   /\ UNCHANGED << geoJSONFeatures, overlay >>
    /\ loading' = FALSE
    /\ fetchDataRequired' = FALSE
    /\ UNCHANGED << map, draw, drawnGeoJSON, selectedIndex, selectedDate,
                    availableDates, cloudCover, loadingDates, baseLayer,
                    interactions, drawsMade, availReqs, availIssued,
                    fetchIssued, lastAvail >>

\* Variant of GeoJSONFails: the catch block also clears the vector source
GeoJSONFails_ClearingSource(k, how) ==
    /\ k \in DOMAIN fetchReqs
    /\ how \in HttpFailures \cup {"nofeatures"}
    /\ ToastCount < MaxToasts
    /\ fetchReqs' = Without(fetchReqs, k)
    /\ toasts' = Toast("geojson")
    /\ overlay' = {}
    /\ loading' = FALSE
    /\ fetchDataRequired' = FALSE
    /\ UNCHANGED << map, draw, geoJSONFeatures, drawnGeoJSON, selectedIndex,
                    selectedDate, availableDates, cloudCover, loadingDates,
                    baseLayer, legendColors, interactions, drawsMade,
                    availReqs, availIssued, fetchIssued, lastAvail >>

\* Variant of GeoJSONFails: the catch block also resets legend and batch
GeoJSONFails_ResettingLegend(k, how) ==
    /\ k \in DOMAIN fetchReqs
    /\ how \in HttpFailures \cup {"nofeatures"}
    /\ ToastCount < MaxToasts
    /\ fetchReqs' = Without(fetchReqs, k)
    /\ toasts' = Toast("geojson")
    /\ legendColors' = EmptyLegend
    /\ geoJSONFeatures' = <<>>
    /\ loading' = FALSE
    /\ fetchDataRequired' = FALSE
    /\ UNCHANGED << map, draw, drawnGeoJSON, selectedIndex, selectedDate,
                    availableDates, cloudCover, loadingDates, baseLayer,
                    overlay, interactions, drawsMade, availReqs, availIssued,
                    fetchIssued, lastAvail >>

\* Variant of GeoJSONFails: the loading flag is left set
GeoJSONFails_KeepingLoading(k, how) ==
    /\ k \in DOMAIN fetchReqs
    /\ how \in HttpFailures \cup {"nofeatures"}
    /\ ToastCount < MaxToasts
    /\ fetchReqs' = Without(fetchReqs, k)
    /\ toasts' = Toast("geojson")
    /\ fetchDataRequired' = FALSE
    /\ UNCHANGED << map, draw, geoJSONFeatures, drawnGeoJSON, selectedIndex,
                    selectedDate, availableDates, cloudCover, loading,
                    loadingDates, baseLayer, legendColors, overlay,
                    interactions, drawsMade, availReqs, availIssued,
                    fetchIssued, lastAvail >>

\* The k-th pending index request fails before any state is set: axios
\* rejects, or response.data has no `features` member and features.map throws
GeoJSONFails(k, how) ==
    /\ k \in DOMAIN fetchReqs
    /\ how \in HttpFailures \cup {"nofeatures"}
    /\ ToastCount < MaxToasts
    /\ fetchReqs' = Without(fetchReqs, k)
    /\ toasts' = Toast("geojson")
    /\ loading' = FALSE
    /\ fetchDataRequired' = FALSE
    /\ UNCHANGED << map, draw, geoJSONFeatures, drawnGeoJSON, selectedIndex,
                    selectedDate, availableDates, cloudCover, loadingDates,
                    baseLayer, legendColors, overlay, interactions, drawsMade,
                    availReqs, availIssued, fetchIssued, lastAvail >>

\* ----------------------------------------------------- Map Surface Manager
\* Variant of ToggleBaseLayer: the rebuild also drops the stored batch
ToggleBaseLayer_DroppingBatch ==
    /\ map < MaxMaps
    /\ baseLayer' = IF baseLayer = "google" THEN "osm" ELSE "google"
    /\ map' = map + 1
    /\ overlay' = {}
    /\ geoJSONFeatures' = <<>>
    /\ IF fetchDataRequired
       THEN FetchGeoJSONData(map + 1, {}, drawnGeoJSON)
       ELSE /\ interactions' = {}
            /\ UNCHANGED << fetchDataRequired, loading, draw, fetchReqs,
                            fetchIssued >>
    /\ UNCHANGED << drawnGeoJSON, selectedIndex, selectedDate,
                    availableDates, cloudCover, loadingDates, legendColors,
                    drawsMade, availReqs, availIssued, toasts, lastAvail >>

\* Click on the base-layer button: setBaseLayer; the base-layer effect
\* detaches the old map and builds a new one, with an empty vector source
\* and no interaction; the render with the new map re-runs the effect on
\* [fetchDataRequired, map]
ToggleBaseLayer ==
    /\ map < MaxMaps
    /\ baseLayer' = IF baseLayer = "google" THEN "osm" ELSE "google"
    /\ map' = map + 1
    /\ overlay' = {}
    /\ IF fetchDataRequired
       THEN FetchGeoJSONData(map + 1, {}, drawnGeoJSON)
       ELSE /\ interactions' = {}
            /\ UNCHANGED << fetchDataRequired, loading, draw, fetchReqs,
                            fetchIssued >>
    /\ UNCHANGED << geoJSONFeatures, drawnGeoJSON, selectedIndex,
                    selectedDate, availableDates, cloudCover, loadingDates,
                    legendColors, drawsMade, availReqs, availIssued, toasts,
                    lastAvail >>

\* ------------------------------------------------- src/src/map.js as a whole
Next ==
    \/ AddDrawInteraction
    \/ \E i \in interactions, p \in Polygons : DrawEnd(i, p)
    \/ RemoveDrawInteraction
    \/ ClearDrawnFeatures
    \/ \E v \in CloudInputs : HandleCloudCoverChange(v)
    \/ \E d \in Range(availableDates) : HandleDateChange(d)
    \/ \E ix \in Indices : HandleIndexChange(ix)
    \/ HandleFetchData
    \/ ToggleBaseLayer
    \/ \E k \in DOMAIN availReqs : AvailableDatesArrive(k)
    \/ \E k \in DOMAIN availReqs, how \in HttpFailures \cup {"notlist"} :
          AvailableDatesFail(k, how)
    \/ \E k \in DOMAIN fetchReqs, f \in FeatureLists : GeoJSONArrives(k, f)
    \/ \E k \in DOMAIN fetchReqs, how \in HttpFailures \cup {"nofeatures"} :
          GeoJSONFails(k, how)

Spec == Init /\ [][Next]_vars

\* Every request that was posted is answered, with a payload or a failure
AvailabilityResponds ==
    \E k \in DOMAIN availReqs :
       \/ AvailableDatesArrive(k)
       \/ \E how \in HttpFailures \cup {"notlist"} : AvailableDatesFail(k, how)

IndexResponds ==
    \E k \in DOMAIN fetchReqs :
       \/ \E f \in FeatureLists : GeoJSONArrives(k, f)
       \/ \E how \in HttpFailures \cup {"nofeatures"} : GeoJSONFails(k, how)

\* The widget with the index left as it is (the index only labels the
\* request) and with every request answered
NextLive ==
    \/ AddDrawInteraction
    \/ \E i \in interactions, p \in Polygons : DrawEnd(i, p)
    \/ RemoveDrawInteraction
    \/ ClearDrawnFeatures
    \/ \E v \in CloudInputs : HandleCloudCoverChange(v)
    \/ \E d \in Range(availableDates) : HandleDateChange(d)
    \/ HandleFetchData
    \/ ToggleBaseLayer
    \/ AvailabilityResponds
    \/ IndexResponds

SpecLive ==
    /\ Init /\ [][NextLive]_vars
    /\ WF_vars(AvailabilityResponds) /\ WF_vars(IndexResponds)

\* ------------------------------------ the legend of larger classifications
\* `features` payloads of polygons with the given class codes: repeated
\* codes, and more distinct codes than the palette has colours
ClassPayloads ==
    { [i \in DOMAIN cs |-> [type |-> "Polygon", class_no |-> cs[i]]] :
        cs \in { << 3, 1, 3, 2, 1 >>,
                 << 7, 7, 4, 9, 1, 0, 2, 5, 3, 8, 6, 4 >>,
                 << 2, 0, 2, 5, 0 >>,
                 << 3, 0, 8, 1, 2, 4, 5, 6, 7, 3 >>,
                 << 5, 1, 0, 2, 3, 4, 6, 7 >>,
                 << 4 >> } }

\* `features` payloads with a geometry type the widget does not convert
KindPayloads ==
    { << [type |-> "Polygon", class_no |-> 2],
         [type |-> "Point", class_no |-> 6],
         [type |-> "MultiPolygon", class_no |-> 0] >> }

\* The widget used for one area of interest after another, the service
\* answering every index request with one of these payloads
NextLegend ==
    \/ AddDrawInteraction
    \/ \E i \in interactions, p \in Polygons : DrawEnd(i, p)
    \/ ClearDrawnFeatures
    \/ \E d \in Range(availableDates) : HandleDateChange(d)
    \/ HandleFetchData
    \/ \E k \in DOMAIN availReqs : AvailableDatesArrive(k)
    \/ \E k \in DOMAIN fetchReqs, f \in ClassPayloads \cup KindPayloads :
          GeoJSONArrives(k, f)

SpecLegend == Init /\ [][NextLegend]_vars

\* ------------------------------------------------- the threshold as typed
\* Values typed into <input type="number" min="0" max="100">: min and max
\* bound the spinner, not the text; the handler stores event.target.value
\* as it is (the string is modelled by the number it denotes)
ThresholdInputs == {10, 150, -5}

NextThreshold ==
    \/ AddDrawInteraction
    \/ \E i \in interactions, p \in Polygons : DrawEnd(i, p)
    \/ ClearDrawnFeatures
    \/ \E v \in ThresholdInputs : HandleCloudCoverChange(v)
    \/ \E d \in Range(availableDates) : HandleDateChange(d)
    \/ \E k \in DOMAIN availReqs : AvailableDatesArrive(k)

SpecThreshold == Init /\ [][NextThreshold]_vars

\* --------------------------------------------- revision src/unnamed/part_001
\* The revision differs from src/src/map.js in fetchGeoJSONData and in the
\* palette of generateColorMapping.

colorsP1 ==
    << "#ff0000", "#00ff00", "#0000ff", "#ffff00",
       "#ff00ff", "#00ffff", "#800000", "#808000",
       "#800080", "#008080", "#000080", "#808080" >>

generateColorMappingP1(classes) ==
    [c \in Range(classes) |->
        colorsP1[(((CHOOSE i \in DOMAIN classes : classes[i] = c) - 1)
                     % Len(colorsP1)) + 1]]

\* `features` payloads whose properties have class_no only, class_no and
\* class, or that hold a feature without geometry
FeatureListsP1 ==
    { << [type |-> "Polygon", class_no |-> 2],
         [type |-> "MultiPolygon", class_no |-> 0] >>,
      << [type |-> "Polygon", class_no |-> 5, class |-> 5] >>,
      << [type |-> "Polygon", class_no |-> 1],
         [type |-> "none", class_no |-> 3] >> }

\* colorMapping[feature.properties.class]
FillP1(feature, colorMapping) ==
    IF "class" \in DOMAIN feature /\ feature.class \in DOMAIN colorMapping
    THEN colorMapping[feature.class]
    ELSE "undefined"

\* features.map(feature => olFeature) of part_001: every geometry is read as
\* a Polygon and filled with the colour the mapping has for properties.class
OlFeaturesP1(features, colorMapping) ==
    [i \in DOMAIN features |->
        [kind |-> "result", of |-> features, idx |-> i,
         geom |-> IF features[i].type = "Polygon"
                  THEN "Polygon" ELSE "Polygon(NaN)",
         class_no |-> features[i].class_no,
         fill |-> FillP1(features[i], colorMapping)]]

\* The response of the k-th pending index request arrives in part_001
GeoJSONArrivesP1(k, features) ==
    /\ k \in DOMAIN fetchReqs
    /\ fetchReqs' = Without(fetchReqs, k)
    /\ LET colorMapping == generateColorMappingP1(ClassesOf(features))
           olFeatures   == OlFeaturesP1(features, colorMapping)
       IN  /\ legendColors' = colorMapping
           /\ IF Convertible(features)
              THEN /\ geoJSONFeatures' = olFeatures
                   /\ overlay' = IF fetchReqs[k].map = map
                                 THEN overlay \cup Range(olFeatures)
                                 ELSE overlay
                   /\ UNCHANGED toasts
              ELSE /\ ToastCount < MaxToasts
                   /\ toasts' = Toast("geojson")
                   /\ UNCHANGED << geoJSONFeatures, overlay >>
    /\ loading' = FALSE
    /\ fetchDataRequired' = FALSE
    /\ UNCHANGED << map, draw, drawnGeoJSON, selectedIndex, selectedDate,
                    availableDates, cloudCover, loadingDates, baseLayer,
                    interactions, drawsMade, availReqs, availIssued,
                    fetchIssued, lastAvail >>

NextP1 ==
    \/ AddDrawInteraction
    \/ \E i \in interactions, p \in Polygons : DrawEnd(i, p)
    \/ RemoveDrawInteraction
    \/ ClearDrawnFeatures
    \/ \E v \in CloudInputs : HandleCloudCoverChange(v)
    \/ \E d \in Range(availableDates) : HandleDateChange(d)
    \/ \E ix \in Indices : HandleIndexChange(ix)
    \/ HandleFetchData
    \/ ToggleBaseLayer
    \/ \E k \in DOMAIN availReqs : AvailableDatesArrive(k)
    \/ \E k \in DOMAIN availReqs, how \in HttpFailures \cup {"notlist"} :
          AvailableDatesFail(k, how)
    \/ \E k \in DOMAIN fetchReqs, f \in FeatureListsP1 :
          GeoJSONArrivesP1(k, f)
    \/ \E k \in DOMAIN fetchReqs, how \in HttpFailures \cup {"nofeatures"} :
          GeoJSONFails(k, how)

SpecP1 == Init /\ [][NextP1]_vars

\* --------------------------------------------- revision src/unnamed/part_003
\* The revision has no availability query, no threshold and no legend (the
\* variables of those keep their initial values); its date is a free
\* <input type="date">, and completing a polygon sets the fetch flag.

DateInputs == {"2024-06-01", ""}   \* values of the date input; '' when emptied

\* features.map(feature => olFeature) of part_003: every geometry is read as
\* a Polygon (the outer array of a MultiPolygon gives a ring of NaN), and no
\* style is set
OlFeaturesP3(features) ==
    [i \in DOMAIN features |->
        [kind |-> "result", of |-> features, idx |-> i,
         geom |-> IF features[i].type = "Polygon"
                  THEN "Polygon" ELSE "Polygon(NaN)",
         class_no |-> features[i].class_no, fill |-> "default"]]

\* The user finishes polygon p: the drawend handler of part_003 stores the
\* polygon and sets the fetch flag; when that changes the flag, the effect
\* of the next render calls fetchGeoJSONData
DrawEndP3(i, p) ==
    /\ i \in interactions
    /\ overlay' = overlay \cup {DrawnFeature(p)}
    /\ drawnGeoJSON' = p
    /\ IF ~fetchDataRequired
       THEN FetchGeoJSONData(map, interactions, p)
       ELSE UNCHANGED << fetchDataRequired, loading, interactions, draw,
                         fetchReqs, fetchIssued >>
    /\ UNCHANGED << map, geoJSONFeatures, selectedIndex, selectedDate,
                    availableDates, cloudCover, loadingDates, baseLayer,
                    legendColors, drawsMade, availReqs, availIssued, toasts,
                    lastAvail >>

\* Click on "Clear Drawing" in part_003
ClearDrawnFeaturesP3 ==
    /\ map # NoMap
    /\ overlay' = {}
    /\ drawnGeoJSON' = NoAoi
    /\ fetchDataRequired' = FALSE
    /\ UNCHANGED << map, draw, geoJSONFeatures, selectedIndex, selectedDate,
                    availableDates, cloudCover, loading, loadingDates,
                    baseLayer, legendColors, interactions, drawsMade,
                    availReqs, availIssued, fetchReqs, fetchIssued, toasts,
                    lastAvail >>

\* The date input changes
HandleDateChangeP3(value) ==
    /\ value \in DateInputs \ {selectedDate}
    /\ selectedDate' = value
    /\ UNCHANGED << map, draw, geoJSONFeatures, drawnGeoJSON, selectedIndex,
                    availableDates, cloudCover, fetchDataRequired, loading,
                    loadingDates, baseLayer, legendColors, overlay,
                    interactions, drawsMade, availReqs, availIssued,
                    fetchReqs, fetchIssued, toasts, lastAvail >>

\* The response of the k-th pending index request arrives in part_003
GeoJSONArrivesP3(k, features) ==
    /\ k \in DOMAIN fetchReqs
    /\ features \in FeatureLists
    /\ fetchReqs' = Without(fetchReqs, k)
    /\ IF Convertible(features)
       THEN /\ geoJSONFeatures' = OlFeaturesP3(features)
            /\ overlay' = IF fetchReqs[k].map = map
                          THEN overlay \cup Range(OlFeaturesP3(features))
                          ELSE overlay
            /\ UNCHANGED toasts
       ELSE /\ ToastCount < MaxToasts
            /\ toasts' = Toast("geojson")
            /\ UNCHANGED << geoJSONFeatures, overlay >>
    /\ loading' = FALSE
    /\ fetchDataRequired' = FALSE
    /\ UNCHANGED << map, draw, drawnGeoJSON, selectedIndex, selectedDate,
                    availableDates, cloudCover, loadingDates, baseLayer,
                    legendColors, interactions, drawsMade, availReqs,
                    availIssued, fetchIssued, lastAvail >>

NextP3 ==
    \/ AddDrawInteraction
    \/ \E i \in interactions, p \in Polygons : DrawEndP3(i, p)
    \/ RemoveDrawInteraction
    \/ ClearDrawnFeaturesP3
    \/ \E v \in DateInputs : HandleDateChangeP3(v)
    \/ \E ix \in Indices : HandleIndexChange(ix)
    \/ HandleFetchData
    \/ ToggleBaseLayer
    \/ \E k \in DOMAIN fetchReqs, f \in FeatureLists : GeoJSONArrivesP3(k, f)
    \/ \E k \in DOMAIN fetchReqs, how \in HttpFailures \cup {"nofeatures"} :
          GeoJSONFails(k, how)

SpecP3 == Init /\ [][NextP3]_vars

\* ------------------------------------------------------------------ claims
\* The dates the service lists for a polygon and a threshold, as the widget
\* stores them
DatesOf(p, cc) == ParsedDates( AvailabilityResponse(p, cc))

\* The result geometries a vector source holds
Results(source) == {x \in source : x.kind = "result"}

\* C1: once every availability response has been delivered, availableDates
\* holds the result of the request that was triggered last (here: when that
\* request succeeded and no clear() came after it).
C1_LastTriggeredWins ==
    (availReqs = <<>> /\ lastAvail.st = "ok")
        => availableDates = DatesOf(lastAvail.aoi, lastAvail.cc)

\* C2: at most one index request is in flight at any time.
C2_SingleFlight == Len(fetchReqs) <= 1

\* C3: after a successful fetch the result geometries on the overlay are
\* exactly those of that response (stated for a response whose map is still
\* the one on screen).
C3_BatchReplacesPrior ==
    [][\A k \in DOMAIN fetchReqs, f \in FeatureLists :
          (GeoJSONArrives(k, f) /\ Convertible(f) /\ fetchReqs[k].map = map)
              => Results(overlay') = Range(geoJSONFeatures')]_vars

\* C4: the availability request issued when a polygon is completed carries
\* the threshold current at that moment.
C4_DrawEndUsesCurrentThreshold ==
    [][\A i \in interactions, p \in Polygons :
          DrawEnd(i, p) => availReqs'[Len(availReqs')].cc = cloudCover]_vars

\* C5: a successful availability response replaces availableDates: after a
\* step in which a request leaves flight without an error, availableDates
\* is exactly the list of that response, parsed.
C5_SuccessReplacesDates ==
    [][\A k \in DOMAIN availReqs :
          (availReqs' = Without(availReqs, k) /\ toasts' = toasts)
              => availableDates' = DatesOf(availReqs[k].aoi, availReqs[k].cc)]_vars

\* A response for threshold 10 has replaced a list that offered 2024-06-10,
\* which the user had picked and which the new list lacks
C5_Witness ==
    /\ lastAvail = [aoi |-> 1, cc |-> 10, st |-> "ok"]
    /\ availReqs = <<>>
    /\ availIssued = 2
    /\ selectedDate = "2024-06-10"
    /\ availableDates = <<parseISO("2024-06-01")>>

\* C6: a failed availability request leaves availableDates as it was,
\* raises exactly one error toast and clears loadingDates.
C6_FailureKeepsDates ==
    [][\A k \in DOMAIN availReqs, how \in HttpFailures \cup {"notlist"} :
          AvailableDatesFail(k, how)
              => /\ availableDates' = availableDates
                 /\ ToastCount' = ToastCount + 1
                 /\ toasts'.dates = toasts.dates + 1
                 /\ loadingDates' = FALSE]_vars

\* The request triggered last has failed while dates were listed
C6_Witness ==
    /\ lastAvail.st = "failed"
    /\ toasts.dates = 1
    /\ availableDates # <<>>
    /\ ~loadingDates

\* C7: a change of the threshold issues exactly one availability request,
\* for the current polygon and the new threshold, when a polygon exists,
\* and none otherwise.
C7_ThresholdChangeRefreshes ==
    [][cloudCover' # cloudCover
          => IF drawnGeoJSON # NoAoi
             THEN availReqs' = Append(availReqs,
                      [aoi |-> drawnGeoJSON, cc |-> cloudCover'])
             ELSE availReqs' = availReqs]_vars

\* Two requests are pending for the polygon; the only Draw interaction made
\* carries the first threshold, so the second request is the one the change
\* of the threshold issued
C7_Witness ==
    /\ drawsMade = 1
    /\ Len(availReqs) = 2
    /\ availReqs[1].cc = InitialCloudCover
    /\ availReqs[2] = [aoi |-> drawnGeoJSON, cc |-> cloudCover]
    /\ cloudCover # InitialCloudCover

\* C9: a failing fetch changes no geometry: the click that issues the
\* request and the handling of its failure (rejected request, payload
\* without features, feature without geometry) leave the vector source as it
\* was; the failure raises one error toast and clears loading.
C9_FailureKeepsGeometry ==
    [][/\ HandleFetchData => overlay' = overlay
       /\ \A k \in DOMAIN fetchReqs :
            \/ \E how \in HttpFailures \cup {"nofeatures"} : GeoJSONFails(k, how)
            \/ \E f \in FeatureLists : GeoJSONArrives(k, f) /\ ~Convertible(f)
            => /\ overlay' = overlay
               /\ ToastCount' = ToastCount + 1
               /\ loading' = FALSE]_vars

\* A fetch has failed on a feature without geometry (the legend is the one
\* of its payload) while the source still shows the batch fetched before
C9_Witness ==
    /\ toasts.geojson = 1
    /\ ~loading
    /\ geoJSONFeatures # <<>>
    /\ Results(overlay) = Range(geoJSONFeatures)
    /\ \E f \in FeatureLists :
          ~Convertible(f) /\ legendColors = generateColorMapping(ClassesOf(f))

\* C10: a payload without `features` leaves the vector source, the stored
\* batch and the legend as they were and raises exactly one error toast.
C10_MissingFeaturesKeepsRenderState ==
    [][\A k \in DOMAIN fetchReqs :
          GeoJSONFails(k, "nofeatures")
              => /\ overlay' = overlay
                 /\ geoJSONFeatures' = geoJSONFeatures
                 /\ legendColors' = legendColors
                 /\ ToastCount' = ToastCount + 1]_vars

\* Both fetches issued have returned, one with an error, and batch, legend
\* and source are those of the successful one
C10_Witness ==
    /\ fetchIssued = 2
    /\ fetchReqs = <<>>
    /\ toasts.geojson = 1
    /\ geoJSONFeatures # <<>>
    /\ Results(overlay) = Range(geoJSONFeatures)
    /\ legendColors = generateColorMapping(ClassesOf(geoJSONFeatures[1].of))

\* C8: a fetch triggered while the index, the date or the polygon is missing
\* issues no request and raises one validation error, both on "Fetch Data"
\* and, in part_003, on the completion of a polygon.
C8_MissingInputRaisesError ==
    [][/\ (HandleFetchData /\ (selectedIndex = "" \/ selectedDate = NoDate
                                 \/ drawnGeoJSON = NoAoi))
            => (fetchReqs' = fetchReqs /\ ToastCount' = ToastCount + 1)
       /\ \A i \in interactions, p \in Polygons :
            (DrawEndP3(i, p) /\ ~fetchDataRequired
                /\ (selectedIndex = "" \/ selectedDate = NoDate))
            => (fetchReqs' = fetchReqs /\ ToastCount' = ToastCount + 1)]_vars

\* C11: a response whose features cannot all be converted changes neither
\* the legend, nor the stored batch, nor the geometries of the overlay.
C11_FailedConversionChangesNothing ==
    [][\A k \in DOMAIN fetchReqs, f \in FeatureLists :
          (GeoJSONArrives(k, f) /\ ~Convertible(f))
              => /\ legendColors' = legendColors
                 /\ geoJSONFeatures' = geoJSONFeatures
                 /\ overlay' = overlay]_vars

C13_TogglePreservesResults ==
    [][ToggleBaseLayer => Results(overlay') = Results(overlay)]_vars

\* C14: a base-layer toggle made while a draw interaction is attached leaves
\* a draw interaction attached to the new map, the draw handle being
\* non-empty exactly when an interaction is attached.
C14_ToggleReattachesDraw ==
    [][(ToggleBaseLayer /\ interactions # {})
          => /\ interactions' # {}
             /\ (draw' # NoDraw) <=> (interactions' # {})]_vars

\* C15: after stop() no draw interaction is attached to the current map.
C15_StopDetachesAll ==
    [][RemoveDrawInteraction => interactions' = {}]_vars

\* C16: while an index request is in flight, no draw interaction is attached
\* to the current map.
C16_FetchExcludesDrawing ==
    fetchReqs # <<>> => interactions = {}

\* C17: every index request that is issued carries a date that is a member
\* of availableDates at the time it is issued.
C17_DateRevalidatedAtFetch ==
    [][Len(fetchReqs') > Len(fetchReqs)
          => parseISO(fetchReqs'[Len(fetchReqs')].date)
                 \in Range(availableDates)]_vars

\* C18: whenever the area of interest is empty, availableDates is empty.
C18_DatesBoundedByAoi ==
    drawnGeoJSON = NoAoi => availableDates = <<>>

\* C19: whenever an index request is in flight, loading is true.
C19_LoadingWhileInFlight ==
    fetchReqs # <<>> => loading

\* Position of the first feature of payload f that has class code c
FirstOf(f, c) ==
    CHOOSE i \in DOMAIN f :
        f[i].class_no = c /\ \A j \in 1..(i - 1) : f[j].class_no # c

\* Number of distinct class codes payload f shows before code c first
RankOf(f, c) == Cardinality({f[j].class_no : j \in 1..(FirstOf(f, c) - 1)})

\* C20: after a response, the legend maps the i-th distinct class code of
\* the response, in first-encountered order and counted from 0, to
\* colors[i mod colors.length], and maps nothing else.
C20_CyclicPaletteInEncounterOrder ==
    [][\A k \in DOMAIN fetchReqs, f \in ClassPayloads :
          GeoJSONArrives(k, f)
              => /\ DOMAIN legendColors' = {f[i].class_no : i \in DOMAIN f}
                 /\ \A c \in DOMAIN legendColors' :
                       legendColors'[c]
                           = colors[(RankOf(f, c) % Len(colors)) + 1]]_vars

\* The legend of a response with ten distinct class codes: the ninth (8)
\* and the tenth (6) reuse the first two colours
C20_Witness ==
    /\ Cardinality(DOMAIN legendColors) = 10
    /\ legendColors[7] = colors[1] /\ legendColors[8] = colors[1]
    /\ legendColors[4] = colors[2] /\ legendColors[6] = colors[2]
    /\ legendColors[3] = colors[8]

\* Payload f shows exactly the class codes 2, 0 and 5, first met in that
\* order
Classes205(f) ==
    /\ {f[i].class_no : i \in DOMAIN f} = {2, 0, 5}
    /\ FirstOf(f, 2) < FirstOf(f, 0)
    /\ FirstOf(f, 0) < FirstOf(f, 5)

\* C21 as stated: a response whose class codes are first met in the order
\* 2, 0, 5 gives class 2 the colour palette[2], class 0 the colour
\* palette[0] and class 5 the colour palette[1] (palette indices from 0; the
\* indices are below 4, so they name the same colours in a palette of
\* length 4 and in the palette of the widget).
C21_Original ==
    [][\A k \in DOMAIN fetchReqs, f \in ClassPayloads :
          (GeoJSONArrives(k, f) /\ Classes205(f))
              => /\ legendColors'[2] = colors[3]
                 /\ legendColors'[0] = colors[1]
                 /\ legendColors'[5] = colors[2]]_vars

\* C21, amended: such a response gives class 2 the colour palette[0], class 0
\* the colour palette[1] and class 5 the colour palette[2].
C21_FirstSeenOrder205 ==
    [][\A k \in DOMAIN fetchReqs, f \in ClassPayloads :
          (GeoJSONArrives(k, f) /\ Classes205(f))
              => /\ legendColors'[2] = colors[1]
                 /\ legendColors'[0] = colors[2]
                 /\ legendColors'[5] = colors[3]]_vars

\* The legend of the response with class codes 2, 0, 5
C21_Witness ==
    /\ DOMAIN legendColors = {2, 0, 5}
    /\ legendColors[2] = "#00ff00"
    /\ legendColors[0] = "#00e600"
    /\ legendColors[5] = "#00cc00"

\* C22: every result geometry a successful fetch stores is filled with the
\* colour the legend of that fetch has for the geometry's class code, also
\* in part_001.
C22_FillIsLegendColour ==
    [][\A k \in DOMAIN fetchReqs, f \in FeatureListsP1 :
          (GeoJSONArrivesP1(k, f) /\ Convertible(f))
              => \A i \in DOMAIN geoJSONFeatures' :
                    geoJSONFeatures'[i].fill
                        = legendColors'[geoJSONFeatures'[i].class_no]]_vars

\* C23: completing a polygon leaves no result geometry of an earlier fetch
\* on the overlay and leaves the legend empty.
C23_DrawDiscardsRenderState ==
    [][\A i \in interactions, p \in Polygons :
          DrawEnd(i, p)
              => Results(overlay') = {} /\ legendColors' = EmptyLegend]_vars

\* C24: when every request is answered, both loading flags and the fetch
\* flag are false again and again, however the requests ended; and in such a
\* state "Fetch Data" with index, date and polygon present posts a request.
C24_NoFailureIsFatal ==
    /\ []<>(~loading /\ ~loadingDates /\ ~fetchDataRequired)
    /\ [][(/\ HandleFetchData
           /\ ~loading /\ ~loadingDates /\ ~fetchDataRequired
           /\ selectedIndex # "" /\ selectedDate # NoDate
           /\ drawnGeoJSON # NoAoi)
              => fetchReqs' = Append(fetchReqs,
                     [map |-> map, index |-> selectedIndex,
                      date |-> selectedDate, aoi |-> drawnGeoJSON])]_vars

\* A request is posted after an index request and an availability request
\* had failed
C24_Witness ==
    /\ toasts.geojson + toasts.dates = 1
    /\ fetchIssued = 2 /\ Len(fetchReqs) = 1 /\ loading

\* C25: a base-layer toggle replaces the map and flips the base-layer kind
\* and leaves the polygon, the available dates, the index, the date, the
\* threshold, the stored batch and the legend as they were; after an even
\* number of toggles the base-layer kind is the initial one.
C25_ToggleFrame ==
    /\ [](baseLayer = IF (map - 1) % 2 = 0 THEN "google" ELSE "osm")
    /\ [][ToggleBaseLayer
            => /\ map' # map /\ baseLayer' # baseLayer
               /\ UNCHANGED << drawnGeoJSON, availableDates, selectedIndex,
                               selectedDate, cloudCover, geoJSONFeatures,
                               legendColors >>]_vars

\* Two toggles were made with a polygon, dates, a date, a changed threshold,
\* a batch and a legend in place
C25_Witness ==
    /\ map = 3 /\ baseLayer = "google"
    /\ drawnGeoJSON # NoAoi /\ availableDates # <<>>
    /\ selectedDate # NoDate /\ cloudCover # InitialCloudCover
    /\ geoJSONFeatures # <<>> /\ legendColors # EmptyLegend

\* C26: every availability request carries a threshold that is an integer
\* between 0 and 100.
C26_ThresholdInRange ==
    \A i \in DOMAIN availReqs : availReqs[i].cc \in 0..100

\* C27: a feature whose geometry is neither a Polygon nor a MultiPolygon
\* gives an undefined entry of the converted batch, every Polygon and
\* MultiPolygon of the response gives a geometry of its kind and class at
\* its position, and the legend has the class codes of all the features.
C27_UnknownKindSkipped ==
    [][\A k \in DOMAIN fetchReqs, f \in KindPayloads :
          GeoJSONArrives(k, f)
              => /\ DOMAIN geoJSONFeatures' = DOMAIN f
                 /\ \A i \in DOMAIN f :
                       IF f[i].type \in {"Polygon", "MultiPolygon"}
                       THEN /\ geoJSONFeatures'[i].kind = "result"
                            /\ geoJSONFeatures'[i].geom = f[i].type
                            /\ geoJSONFeatures'[i].class_no = f[i].class_no
                       ELSE geoJSONFeatures'[i] = Undefined
                 /\ DOMAIN legendColors'
                       = {f[i].class_no : i \in DOMAIN f}]_vars

\* The batch of a response whose second feature is a Point
C27_Witness ==
    /\ Len(geoJSONFeatures) = 3
    /\ geoJSONFeatures[2] = Undefined
    /\ geoJSONFeatures[1].kind = "result"
    /\ geoJSONFeatures[3].kind = "result"
    /\ geoJSONFeatures[3].geom = "MultiPolygon"
    /\ DOMAIN legendColors = {2, 6, 0}

\* C28: "Fetch Data" while the fetch flag is set posts no request, shows no
\* message and changes neither flag.
C28_RepeatedFetchDropped ==
    [][(HandleFetchData /\ fetchDataRequired)
          => UNCHANGED << fetchReqs, fetchIssued, toasts, loading,
                          fetchDataRequired >>]_vars

\* A request is in flight with the flag set and the inputs present, the
\* state in which a further "Fetch Data" is dropped
C28_Witness ==
    /\ fetchDataRequired /\ Len(fetchReqs) = 1 /\ fetchIssued = 1
    /\ selectedIndex # "" /\ selectedDate # NoDate /\ drawnGeoJSON # NoAoi
       /\ ToastCount = 0

\* C29: the class codes of the legend are the class codes of the result
\* geometries on the current overlay.
C29_LegendMatchesOverlay ==
    DOMAIN legendColors = {x.class_no : x \in Results(overlay)}

\* C30: whenever the area of interest is empty, the overlay holds no result
\* geometry and the legend is empty.
C30_NoResultsWithoutAoi ==
    drawnGeoJSON = NoAoi
        => Results(overlay) = {} /\ legendColors = EmptyLegend

\* C31: the geometries of a successful fetch are on the overlay of the map
\* that is current when the response arrives.
C31_ResultsOnCurrentOverlay ==
    [][\A k \in DOMAIN fetchReqs, f \in FeatureLists :
          (GeoJSONArrives(k, f) /\ Convertible(f))
              => Range(geoJSONFeatures') \subseteq overlay']_vars

\* C32: whenever an availability request is in flight, loadingDates is true.
C32_LoadingDatesWhileInFlight ==
    availReqs # <<>> => loadingDates

\* C33: the legend of a response with at most 8 distinct class codes gives
\* distinct codes distinct colours; for a response with the class codes
\* 0..8 the code met ninth has the colour of the code met first.
C33_InjectiveUpToPalette ==
    [][\A k \in DOMAIN fetchReqs, f \in ClassPayloads :
          GeoJSONArrives(k, f)
              => LET codes == {f[i].class_no : i \in DOMAIN f}
                 IN  /\ Cardinality(codes) <= 8
                          => \A c, d \in codes :
                                c # d => legendColors'[c] # legendColors'[d]
                     /\ codes = 0..8
                          => \A c, d \in codes :
                                (RankOf(f, c) = 0 /\ RankOf(f, d) = 8)
                                    => legendColors'[c] = legendColors'[d]]_vars

\* The legend of the response with the codes 0..8, 3 met first and 7 ninth
C33_Witness ==
    /\ DOMAIN legendColors = 0..8
    /\ legendColors[3] = legendColors[7]
    /\ Cardinality({legendColors[c] : c \in 0..8}) = 8

====
